---- MODULE Spec2Model ----
(***************************************************************************)
(* Model of the accounts application: the Role / UserRole / Profile        *)
(* entities of accounts/models.py, the admin actions of accounts/admin.py  *)
(* and the registration / login views of accounts/views.py.                *)
(*                                                                         *)
(* Database tables are sequences; a row's primary key is its index.        *)
(* Every request is a process p whose record req[p] holds the handler's    *)
(* local variables and its position (pc).  One action is one database      *)
(* statement (with the in-memory work that precedes it), so that the       *)
(* interleavings of concurrent requests are those of the database.         *)
(***************************************************************************)
EXTENDS Integers, Sequences, FiniteSets, TLC

\* ---------------------------------------------------------------- bounds
\* concurrent requests
NumProcs == 2
\* the clock runs over 0..MaxTime
MaxTime == 1
\* users and roles of the ledger under concurrent requests (Spec)
LedgerUsers == 1
LedgerRoles == 1
\* rows an admin action selects (Spec)
MaxSelect == 2
\* users and roles of the ledger under one request at a time (SpecSeq), and
\* the rows an admin action selects there
SeqUsers == 2
SeqRoles == 2
SeqSelect == 1
\* users and roles of the sessions (SpecSession)
SessUsers == 2
SessRoles == 1
\* the users whose roles change while the sessions run (SpecSession)
SessHolders == 1
\* rows the user, role and token tables grow to (SpecAuth)
MaxUsers == 2
MaxRoles == 2
MaxTokens == 2

\* ------------------------------------------------------------- constants
\* views.py: default_role = Role.objects.get(id=2)
DefaultRoleId == 2

Procs == 1..NumProcs
\* null foreign key / unsaved primary key
NoId == 0
\* null timestamp
Null == -1
\* None or "" for UserRole.note (both are falsy in `if note:`)
NoNote == ""
Notes == {NoNote, "n"}

VARIABLES users, profiles, roles, ledger, now, tokens, req

vars == <<users, profiles, roles, ledger, now, tokens, req>>

\* ------------------------------------------------------------ data model
\* slugify(name) of the i-th role created; names (and so slugs) are unique
RoleSlug(i) == IF i = 1 THEN "admin" ELSE IF i = 2 THEN "member" ELSE "role-x"

RoleIds == 1..Len(roles)
UserIds == 1..Len(users)
RowIds == 1..Len(ledger)

\* the in-memory UserRole instance of "no instance"
NoUR ==
    [id |-> NoId, user |-> NoId, role |-> NoId, is_active |-> FALSE,
     assigned_at |-> Null, revoked_at |-> Null, assigned_by |-> NoId, note |-> NoNote]

\* the in-memory Role instance a caller passes to add_role
NoRoleObj == [pk |-> NoId, is_active |-> FALSE]

\* validated_data of no registration
NoData == [username |-> "", email |-> "", password |-> ""]

Idle ==
    [op |-> "idle", pc |-> "idle", user |-> NoId, role |-> NoRoleObj, by |-> NoId,
     note |-> NoNote, at |-> Null, ur |-> NoUR, queue |-> <<>>, data |-> NoData,
     status |-> "", error |-> "", token |-> NoId, body |-> {}]

Free(p) == req[p].pc \in {"idle", "done"}

\* the request ends: only its outcome is kept
Done(r, status) ==
    [Idle EXCEPT !.op = r.op, !.pc = "done", !.status = status,
                 !.user = IF r.op \in {"register", "save_user"} THEN r.user ELSE NoId,
                 !.token = r.token, !.body = r.body]

\* the rows of the ledger for a (user, role) pair
RowsFor(u, r) == {i \in RowIds : ledger[i].user = u /\ ledger[i].role = r}

\* an in-memory instance loaded from row i
Load(i) == [id |-> i] @@ ledger[i]

\* the row an instance's save() writes: every column, from the instance
RowOf(ur) ==
    [user |-> ur.user, role |-> ur.role, is_active |-> ur.is_active,
     assigned_at |-> ur.assigned_at, revoked_at |-> ur.revoked_at,
     assigned_by |-> ur.assigned_by, note |-> ur.note]

\* timezone.now(): the clock only moves past a value that was read
ClockUsed ==
    \/ \E i \in RowIds : now \in {ledger[i].assigned_at, ledger[i].revoked_at}
    \/ \E p \in Procs : req[p].at = now

Tick ==
    /\ now < MaxTime
    /\ ClockUsed
    /\ now' = now + 1
    /\ UNCHANGED <<users, profiles, roles, ledger, tokens, req>>

\* --------------------------------------------------------- Profile facade
\* has_role without the filter role__is_active=True
has_role_any_role(u, slug) ==
    \E i \in RowIds :
        /\ ledger[i].user = u
        /\ ledger[i].is_active
        /\ ledger[i].role \in RoleIds
        /\ roles[ledger[i].role].slug = slug

\* Profile.has_role: the join UserRole x Role filtered on both is_active flags
has_role(u, slug) ==
    \E i \in RowIds :
        /\ ledger[i].user = u
        /\ ledger[i].is_active
        /\ ledger[i].role \in RoleIds
        /\ roles[ledger[i].role].slug = slug
        /\ roles[ledger[i].role].is_active

\* Profile.get_active_roles: the join Role x UserRole filtered on both
\* is_active flags, one result per joined row (no distinct()), in the order
\* of Role.Meta.ordering (the name; names grow with the id here)
RECURSIVE JoinRoles(_, _)
JoinRoles(u, r) ==
    IF r = 0 THEN <<>>
    ELSE LET joined == {i \in RowIds : ledger[i].user = u /\ ledger[i].role = r
                                       /\ ledger[i].is_active}
         IN  JoinRoles(u, r - 1) \o
             (IF roles[r].is_active THEN [k \in 1..Cardinality(joined) |-> r] ELSE <<>>)

\* the join without the filter is_active=True on Role
get_active_roles_any_role(u) ==
    LET Held(r) == \E i \in RowIds : ledger[i].user = u /\ ledger[i].role = r
                                      /\ ledger[i].is_active
    IN  SelectSeq([r \in RoleIds |-> r], Held)

get_active_roles(u) == JoinRoles(u, Len(roles))

\* [r.slug for r in ...get_active_roles()]
RoleSlugs(rs) == [k \in 1..Len(rs) |-> roles[rs[k]].slug]

\* the guard without `if not role.is_active`
RoleSaved(role) == role.pk # NoId

\* add_role's guard: the role is saved and active
RoleAssignable(role) == role.pk # NoId /\ role.is_active

\* the table without the unique constraint
NoUniqueTogether(u, r) == TRUE

\* unique_together = ("user", "role"): the INSERT is accepted
UniqueTogether(u, r) == RowsFor(u, r) = {}

\* an exception leaves add_role; RegisterView.create catches only
\* Role.DoesNotExist, so any other one ends the request with a server error
Raise(r, exc) ==
    [Done(r, IF r.op = "register" THEN "500" ELSE exc) EXCEPT !.role = r.role]

\* add_role returns ur to its caller
Return(r, ur) ==
    IF r.op = "register" THEN [r EXCEPT !.pc = "reg_token", !.ur = ur]
    ELSE Done([r EXCEPT !.ur = ur], "ok")

\* a caller holds a Role instance (loaded with Role.objects.get, or built and
\* not saved: pk None, is_active at its default) and calls profile.add_role:
\* the two checks, then the defaults of get_or_create are evaluated
EnterAddRole(r, role, by, note) ==
    IF RoleAssignable(role)
    THEN [r EXCEPT !.pc = "goc_get", !.role = role, !.by = by, !.note = note, !.at = now]
    ELSE Raise([r EXCEPT !.role = role], "ValueError")

RoleObj(r) == IF r = NoId THEN [pk |-> NoId, is_active |-> TRUE]
              ELSE [pk |-> r, is_active |-> roles[r].is_active]

CallAddRole(p, u, r, by, note) ==
    /\ Free(p)
    /\ req' = [req EXCEPT ![p] =
          EnterAddRole([Idle EXCEPT !.op = "add_role", !.user = u], RoleObj(r), by, note)]
    /\ UNCHANGED <<users, profiles, roles, ledger, now, tokens>>

\* get_or_create: the SELECT
GetOrCreateGet(p) ==
    /\ req[p].pc = "goc_get"
    /\ LET rows == RowsFor(req[p].user, req[p].role.pk)
       IN  req' = [req EXCEPT ![p] =
              IF rows # {}
              THEN [req[p] EXCEPT !.pc = "add_update", !.ur = Load(CHOOSE i \in rows : TRUE)]
              ELSE [req[p] EXCEPT !.pc = "goc_create"]]
    /\ UNCHANGED <<users, profiles, roles, ledger, now, tokens>>

\* the INSERT of UserRole.objects.create: the IntegrityError is not caught
GetOrCreateCreate_raise(p) ==
    /\ req[p].pc = "goc_create"
    /\ LET u == req[p].user
           r == req[p].role.pk
           row == [user |-> u, role |-> r, is_active |-> TRUE,
                   assigned_at |-> req[p].at, revoked_at |-> Null,
                   assigned_by |-> req[p].by, note |-> req[p].note]
       IN  IF UniqueTogether(u, r)
           THEN /\ ledger' = Append(ledger, row)
                /\ req' = [req EXCEPT ![p] =
                      Return(req[p], [id |-> Len(ledger) + 1] @@ row)]
           ELSE /\ ledger' = ledger
                /\ req' = [req EXCEPT ![p] = Raise(req[p], "IntegrityError")]
    /\ UNCHANGED <<users, profiles, roles, now, tokens>>

\* get_or_create: the INSERT; on IntegrityError (kept in error while the
\* call goes on) the row is selected again
GetOrCreateCreate(p) ==
    /\ req[p].pc = "goc_create"
    /\ LET u == req[p].user
           r == req[p].role.pk
           row == [user |-> u, role |-> r, is_active |-> TRUE,
                   assigned_at |-> req[p].at, revoked_at |-> Null,
                   assigned_by |-> req[p].by, note |-> req[p].note]
       IN  IF UniqueTogether(u, r)
           THEN /\ ledger' = Append(ledger, row)
                /\ req' = [req EXCEPT ![p] =
                      Return(req[p], [id |-> Len(ledger) + 1] @@ row)]
           ELSE /\ ledger' = ledger
                /\ req' = [req EXCEPT ![p] =
                      [req[p] EXCEPT !.pc = "add_update", !.error = "IntegrityError",
                                     !.ur = Load(CHOOSE i \in RowsFor(u, r) : TRUE)]]
    /\ UNCHANGED <<users, profiles, roles, now, tokens>>

\* the update without `ur.is_active = True`
ReassignedAsIs(ur, by, note, t) ==
    [ur EXCEPT !.assigned_by = IF by # NoId THEN by ELSE ur.assigned_by,
               !.note = IF note # NoNote THEN note ELSE ur.note,
               !.assigned_at = t]

\* the instance add_role saves when the mapping existed
Reassigned(ur, by, note, t) ==
    [ur EXCEPT !.is_active = TRUE,
               !.assigned_by = IF by # NoId THEN by ELSE ur.assigned_by,
               !.note = IF note # NoNote THEN note ELSE ur.note,
               !.assigned_at = t]

\* `if not created:` ... ur.save()
AddRoleUpdate(p) ==
    /\ req[p].pc = "add_update"
    /\ LET ur == Reassigned(req[p].ur, req[p].by, req[p].note, now)
       IN  /\ ledger' = [ledger EXCEPT ![ur.id] = RowOf(ur)]
           /\ req' = [req EXCEPT ![p] = Return(req[p], ur)]
    /\ UNCHANGED <<users, profiles, roles, now, tokens>>

\* the UPDATE without the filter is_active=True
Revocable_any(u, r) == RowsFor(u, r)

\* the rows remove_role's UPDATE matches
Revocable(u, r) == {i \in RowsFor(u, r) : ledger[i].is_active}

\* Profile.remove_role: one UPDATE statement
remove_role(u, r) ==
    /\ ledger' = [i \in RowIds |->
          IF i \in Revocable(u, r)
          THEN [ledger[i] EXCEPT !.is_active = FALSE, !.revoked_at = now]
          ELSE ledger[i]]
    /\ UNCHANGED <<users, profiles, roles, now, tokens, req>>

\* ----------------------------------------------------------------- admin
\* UserRole.revoke(by)
revoke(ur, by, t) ==
    [ur EXCEPT !.is_active = FALSE, !.revoked_at = t,
               !.assigned_by = IF by # NoId THEN by ELSE ur.assigned_by]

\* UserRole.activate(by)
activate(ur, by, t) ==
    [ur EXCEPT !.is_active = TRUE, !.assigned_at = t, !.revoked_at = Null,
               !.assigned_by = IF by # NoId THEN by ELSE ur.assigned_by]

\* Meta.ordering = ("-assigned_at",), made total by the changelist with -pk
RECURSIVE Ordered(_)
Ordered(S) ==
    IF S = {} THEN <<>>
    ELSE LET first == CHOOSE i \in S : \A j \in S :
                          \/ ledger[i].assigned_at > ledger[j].assigned_at
                          \/ ledger[i].assigned_at = ledger[j].assigned_at /\ i >= j
         IN  <<Load(first)>> \o Ordered(S \ {first})

\* an admin action starts: `for ur in queryset` fetches the selected rows
AdminSelect(p, kind, by, S) ==
    /\ Free(p)
    /\ req' = [req EXCEPT ![p] =
          [Idle EXCEPT !.op = kind, !.pc = "admin_loop", !.by = by, !.queue = Ordered(S)]]
    /\ UNCHANGED <<users, profiles, roles, ledger, now, tokens>>

\* the request after one pass of the loop
AdminNext(r, ur) ==
    IF Len(r.queue) = 1 THEN Done([r EXCEPT !.ur = ur], "ok")
    ELSE [r EXCEPT !.queue = Tail(r.queue), !.ur = ur]

\* revoke_mappings: one pass of the loop
RevokeMapping(p) ==
    /\ req[p].pc = "admin_loop"
    /\ req[p].op = "revoke_mappings"
    /\ LET ur == Head(req[p].queue)
           new == IF ur.is_active THEN revoke(ur, req[p].by, now) ELSE ur
       IN  /\ ledger' = [ledger EXCEPT ![ur.id] = IF ur.is_active THEN RowOf(new) ELSE @]
           /\ req' = [req EXCEPT ![p] = AdminNext(req[p], new)]
    /\ UNCHANGED <<users, profiles, roles, now, tokens>>

\* activate_mappings: one pass of the loop
ActivateMapping(p) ==
    /\ req[p].pc = "admin_loop"
    /\ req[p].op = "activate_mappings"
    /\ LET ur == Head(req[p].queue)
           new == IF ~ur.is_active THEN activate(ur, req[p].by, now) ELSE ur
       IN  /\ ledger' = [ledger EXCEPT ![ur.id] = IF ~ur.is_active THEN RowOf(new) ELSE @]
           /\ req' = [req EXCEPT ![p] = AdminNext(req[p], new)]
    /\ UNCHANGED <<users, profiles, roles, now, tokens>>

\* the update on Role.objects.all() instead of the selected queryset
SetActive_all(S, b) == [i \in RoleIds |-> [roles[i] EXCEPT !.is_active = b]]

\* RoleAdmin.activate_roles / deactivate_roles: queryset.update(is_active=b)
SetActive(S, b) == [i \in RoleIds |-> IF i \in S THEN [roles[i] EXCEPT !.is_active = b] ELSE roles[i]]

activate_roles(S) ==
    /\ roles' = SetActive(S, TRUE)
    /\ UNCHANGED <<users, profiles, ledger, now, tokens, req>>

deactivate_roles(S) ==
    /\ roles' = SetActive(S, FALSE)
    /\ UNCHANGED <<users, profiles, ledger, now, tokens, req>>

\* ------------------------------------------------- the ledger under load
UserRow(i) == [username |-> IF i = 1 THEN "ann" ELSE IF i = 2 THEN "bob" ELSE "cat",
               email |-> IF i = 1 THEN "ann@x" ELSE IF i = 2 THEN "bob@x" ELSE "cat@x",
               password |-> "pw"]

\* nu users and nr active roles exist, nothing is assigned yet
Populated(nu, nr) ==
    /\ users = [i \in 1..nu |-> UserRow(i)]
    /\ profiles = [i \in 1..nu |-> i]
    /\ roles = [i \in 1..nr |-> [slug |-> RoleSlug(i), is_active |-> TRUE]]
    /\ ledger = <<>>
    /\ now = 0
    /\ tokens = <<>>
    /\ req = [p \in Procs |-> Idle]

\* what callers pass as (assigned_by, note)
Meta == {<<NoId, NoNote>>, <<1, "n">>}

\* the requests of processes P on the ledger: add_role called with the
\* metadata M, admin actions on at most k selected rows
Calls(P, M, k) ==
    \/ \E p \in P, u \in UserIds, r \in RoleIds \cup {NoId}, m \in M :
          CallAddRole(p, u, r, m[1], m[2])
    \/ \E p \in P : GetOrCreateGet(p)
    \/ \E p \in P : GetOrCreateCreate(p)
    \/ \E p \in P : AddRoleUpdate(p)
    \/ \E p \in P, kind \in {"revoke_mappings", "activate_mappings"}, by \in {1},
          S \in {T \in SUBSET RowIds : Cardinality(T) \in 1..k} : AdminSelect(p, kind, by, S)
    \/ \E p \in P : RevokeMapping(p)
    \/ \E p \in P : ActivateMapping(p)

\* the operations that are one statement
Statements ==
    \/ \E u \in UserIds, r \in RoleIds : remove_role(u, r)
    \/ \E S \in SUBSET RoleIds \ {{}} : activate_roles(S)
    \/ \E S \in SUBSET RoleIds \ {{}} : deactivate_roles(S)

\* no request is under way
Quiet == \A p \in Procs : Free(p)

Init == Populated(LedgerUsers, LedgerRoles)

Next == Calls(Procs, Meta, MaxSelect) \/ Statements \/ Tick

\* concurrent requests on the ledger
Spec == Init /\ [][Next]_vars

InitSeq == Populated(SeqUsers, SeqRoles)

NextSeq ==
    \/ Calls({1}, {<<1, NoNote>>}, SeqSelect)
    \/ \E u \in UserIds, r \in RoleIds : Quiet /\ remove_role(u, r)
    \/ \E S \in SUBSET RoleIds \ {{}} : Quiet /\ activate_roles(S)
    \/ \E S \in SUBSET RoleIds \ {{}} : Quiet /\ deactivate_roles(S)

\* one operation at a time, on more users and roles
SpecSeq == InitSeq /\ [][NextSeq]_vars

\* ---------------------------------------------------------- registration
\* the username validator accepts "@": a username may look like an email
Usernames == {"ann", "bob", "bob@x"}
Emails == {"ann@x", "bob@x"}
Passwords == {"pw", "px"}

\* `"@" in s`
HasAt(s) == s \in Emails

\* User.objects.filter(email=e)
UsersWithEmail(e) == {i \in UserIds : users[i].email = e}

\* the unique username column of the user table
UsersNamed(n) == {i \in UserIds : users[i].username = n}

\* validate without the query on the email
validate_passwords(attrs) == IF attrs.password # attrs.password2 THEN "password" ELSE ""

\* RegisterSerializer.validate: the field of the ValidationError, or "" when
\* the attributes are returned
validate(attrs) ==
    IF attrs.password # attrs.password2 THEN "password"
    ELSE IF UsersWithEmail(attrs.email) # {} THEN "email"
    ELSE ""

\* serializer.is_valid: the field validators (of which the unique username
\* is modelled, the others are the input `fields`), then validate()
is_valid(attrs, fields) ==
    IF ~fields THEN "fields"
    ELSE IF UsersNamed(attrs.username) # {} THEN "username"
    ELSE validate(attrs)

\* registrations that passed validation and have not saved their user yet
Saving == {p \in Procs : req[p].pc = "reg_save"}

\* registrations that have not issued their token yet
Registering == {p \in Procs : req[p].op = "register" /\ req[p].pc \notin {"done", "reg_body"}}

\* requests that are about to issue a token pair
Issuing == Registering \cup {p \in Procs : req[p].pc = "rotate"}

\* POST /register: serializer.is_valid(raise_exception=True); fields is the
\* outcome of the field validators other than the unique username
Register(p, attrs, fields) ==
    /\ Free(p)
    /\ Len(users) + Cardinality(Saving) < MaxUsers
    /\ Len(tokens) + Cardinality(Issuing) < MaxTokens
    /\ LET r == [Idle EXCEPT !.op = "register"]
       IN  req' = [req EXCEPT ![p] =
              IF is_valid(attrs, fields) = ""
              THEN [r EXCEPT !.pc = "reg_save",
                             !.data = [username |-> attrs.username, email |-> attrs.email,
                                       password |-> attrs.password]]
              ELSE [Done(r, "400") EXCEPT !.error = is_valid(attrs, fields)]]
    /\ UNCHANGED <<users, profiles, roles, ledger, now, tokens>>

\* create_or_ensure_profile, the post_save receiver: the profile rows after
\* user u was saved
create_or_ensure_profile(u, created) ==
    IF created \/ \A k \in 1..Len(profiles) : profiles[k] # u
    THEN Append(profiles, u)
    ELSE profiles

\* serializer.save(): RegisterSerializer.create inserts the user (a username
\* taken in the meantime is an IntegrityError), post_save creates the profile
RegSave(p) ==
    /\ req[p].pc = "reg_save"
    /\ IF UsersNamed(req[p].data.username) = {}
       THEN /\ users' = Append(users, req[p].data)
            /\ profiles' = create_or_ensure_profile(Len(users) + 1, TRUE)
            /\ req' = [req EXCEPT ![p] = [req[p] EXCEPT !.pc = "reg_role",
                                                       !.user = Len(users) + 1]]
       ELSE /\ req' = [req EXCEPT ![p] = Done(req[p], "500")]
            /\ UNCHANGED <<users, profiles>>
    /\ UNCHANGED <<roles, ledger, now, tokens>>

\* Role.objects.get(id=2), then user.profile.add_role(default_role); only
\* Role.DoesNotExist is caught
RegGetRole(p) ==
    /\ req[p].pc = "reg_role"
    /\ req' = [req EXCEPT ![p] =
          IF DefaultRoleId \in RoleIds
          THEN EnterAddRole(req[p], RoleObj(DefaultRoleId), NoId, NoNote)
          ELSE [req[p] EXCEPT !.pc = "reg_token"]]
    /\ UNCHANGED <<users, profiles, roles, ledger, now, tokens>>

\* a token pair is a row of tokens: the refresh token, its blacklist entry
\* and the age of the pair; spent is the history of the refresh token, which
\* the server does not store: the operation that succeeded with it.  ACCESS_TOKEN_LIFETIME is shorter than
\* REFRESH_TOKEN_LIFETIME: the access token expires first
Fresh == 0
AccessExpired == 1
RefreshExpired == 2

\* RefreshToken.for_user(user): the payload holds the user id and no claim
\* of the application
for_user(u) == [user |-> u, claims |-> {}, blacklisted |-> FALSE, age |-> Fresh, spent |-> ""]

\* CustomTokenObtainPairSerializer.get_token
get_token(u) ==
    [user |-> u,
     claims |-> {[username |-> users[u].username, email |-> users[u].email,
                  roles |-> RoleSlugs(get_active_roles(u))]},
     blacklisted |-> FALSE, age |-> Fresh, spent |-> ""]

\* refresh = RefreshToken.for_user(user)
RegToken(p) ==
    /\ req[p].pc = "reg_token"
    /\ tokens' = Append(tokens, for_user(req[p].user))
    /\ req' = [req EXCEPT ![p] = [req[p] EXCEPT !.pc = "reg_body", !.token = Len(tokens) + 1]]
    /\ UNCHANGED <<users, profiles, roles, ledger, now>>

\* the response body, with the roles read now; 201
RegRespond(p) ==
    /\ req[p].pc = "reg_body"
    /\ LET u == req[p].user
           body == [username |-> users[u].username, email |-> users[u].email,
                    roles |-> RoleSlugs(get_active_roles(u))]
       IN  req' = [req EXCEPT ![p] = Done([req[p] EXCEPT !.body = {body}], "201")]
    /\ UNCHANGED <<users, profiles, roles, ledger, now, tokens>>

\* ----------------------------------------------------------------- login
\* CustomTokenObtainPairSerializer.validate: the username the credentials
\* are checked with, or "error" when User.objects.get finds several users
Resolve(ident) ==
    IF HasAt(ident)
    THEN LET found == UsersWithEmail(ident)
         IN  IF found = {} THEN ident
             ELSE IF Cardinality(found) = 1 THEN users[CHOOSE i \in found : TRUE].username
             ELSE "error"
    ELSE ident

\* authenticate(username, password) of the parent serializer
Authenticate(name, pw) == {i \in UsersNamed(name) : users[i].password = pw}

\* the outcome of validate(): the status of the response and the user the
\* token pair is issued for
login_outcome(ident, pw) ==
    LET name == Resolve(ident)
        who == Authenticate(name, pw)
    IN  IF name = "error" THEN [status |-> "500", user |-> NoId]
        ELSE IF who = {} THEN [status |-> "401", user |-> NoId]
        ELSE [status |-> "200", user |-> CHOOSE i \in who : TRUE]

\* POST /login
Login(p, ident, pw) ==
    /\ Free(p)
    /\ Len(tokens) + Cardinality(Issuing) < MaxTokens
    /\ LET r == [Idle EXCEPT !.op = "login"]
           out == login_outcome(ident, pw)
       IN  IF out.status # "200"
           THEN /\ req' = [req EXCEPT ![p] = Done(r, out.status)]
                /\ tokens' = tokens
           ELSE /\ tokens' = Append(tokens, get_token(out.user))
                /\ req' = [req EXCEPT ![p] = Done([r EXCEPT !.token = Len(tokens) + 1], "200")]
    /\ UNCHANGED <<users, profiles, roles, ledger, now>>

\* Role.save() of a new role: the slug is derived from the name
CreateRole(active) ==
    /\ Len(roles) < MaxRoles
    /\ roles' = Append(roles, [slug |-> RoleSlug(Len(roles) + 1), is_active |-> active])
    /\ UNCHANGED <<users, profiles, ledger, now, tokens, req>>

\* no user yet, and the first role
InitAuth ==
    /\ users = <<>>
    /\ profiles = <<>>
    /\ roles = <<[slug |-> RoleSlug(1), is_active |-> TRUE]>>
    /\ ledger = <<>>
    /\ now = 0
    /\ tokens = <<>>
    /\ req = [p \in Procs |-> Idle]

NextAuth ==
    \/ \E p \in Procs, n \in Usernames, e \in Emails, pw2 \in Passwords, fields \in BOOLEAN :
          Register(p, [username |-> n, email |-> e, password |-> "pw", password2 |-> pw2], fields)
    \/ \E p \in Procs : RegSave(p)
    \/ \E p \in Procs : RegGetRole(p)
    \/ \E p \in Procs : GetOrCreateGet(p)
    \/ \E p \in Procs : GetOrCreateCreate(p)
    \/ \E p \in Procs : RegToken(p)
    \/ \E p \in Procs : RegRespond(p)
    \/ \E p \in Procs, ident \in Usernames \cup Emails, pw \in Passwords : Login(p, ident, pw)
    \/ \E active \in BOOLEAN : CreateRole(active)
    \/ \E S \in SUBSET (RoleIds \cap {DefaultRoleId}) \ {{}} : activate_roles(S)
    \/ \E S \in SUBSET (RoleIds \cap {DefaultRoleId}) \ {{}} : deactivate_roles(S)

\* registration and login; the new user's mapping to the default role is
\* touched by the registration alone
SpecAuth == InitAuth /\ [][NextAuth]_vars

\* the same with one client: the requests do not overlap
NextAuthSeq ==
    \/ \E n \in Usernames, e \in Emails, pw2 \in Passwords, fields \in BOOLEAN :
          Register(1, [username |-> n, email |-> e, password |-> "pw", password2 |-> pw2], fields)
    \/ RegSave(1)
    \/ RegGetRole(1)
    \/ GetOrCreateGet(1)
    \/ GetOrCreateCreate(1)
    \/ RegToken(1)
    \/ RegRespond(1)
    \/ \E ident \in Usernames \cup Emails, pw \in Passwords : Login(1, ident, pw)
    \/ \E active \in BOOLEAN : Quiet /\ CreateRole(active)
    \/ \E S \in SUBSET (RoleIds \cap {DefaultRoleId}) \ {{}} : Quiet /\ activate_roles(S)
    \/ \E S \in SUBSET (RoleIds \cap {DefaultRoleId}) \ {{}} : Quiet /\ deactivate_roles(S)

SpecAuthSeq == InitAuth /\ [][NextAuthSeq]_vars

\* --------------------------------------------------------------- session
\* the pairs that were issued.  A client sends one of them, or a string that
\* is no token of the server (NoId), or nothing (Null)
TokenIds == 1..Len(tokens)

\* the verification without check_blacklist()
ValidRefresh_no_blacklist(k) == k \in TokenIds /\ tokens[k].age # RefreshExpired

\* the verification without the check of "exp"
ValidRefresh_no_expiry(k) == k \in TokenIds /\ ~tokens[k].blacklisted

\* RefreshToken(raw): the signature and the type, the expiry, the blacklist
ValidRefresh(k) ==
    /\ k \in TokenIds
    /\ tokens[k].age # RefreshExpired
    /\ ~tokens[k].blacklisted

\* JWTAuthentication: the access token of pair a authenticates its user
ValidAccess(a) == a \in TokenIds /\ tokens[a].age = Fresh

\* time passes the expiry of pair k's access token, then of its refresh
\* token; the pairs issued before k are at least as old
Expire(k) ==
    /\ tokens[k].age # RefreshExpired
    /\ \A j \in 1..(k - 1) : tokens[j].age > tokens[k].age
    /\ tokens' = [tokens EXCEPT ![k].age = @ + 1]
    /\ UNCHANGED <<users, profiles, roles, ledger, now, req>>

\* POST /token/refresh: the serializer requires the field and verifies the
\* token (a token that was never used is sent while the table has room for
\* the pair it may be exchanged for)
RefreshVerify(p, k) ==
    /\ Free(p)
    /\ (k \in TokenIds /\ tokens[k].spent = "") => Len(tokens) + Cardinality(Issuing) < MaxTokens
    /\ LET r == [Idle EXCEPT !.op = "refresh", !.token = k]
       IN  req' = [req EXCEPT ![p] =
              IF k = Null THEN Done(r, "400")
              ELSE IF ~ValidRefresh(k) THEN Done(r, "401")
              ELSE [r EXCEPT !.pc = "rotate"]]
    /\ UNCHANGED <<users, profiles, roles, ledger, now, tokens>>

\* token.blacklist(): get_or_create of the blacklist entry
blacklist(toks, k) == [toks EXCEPT ![k].blacklisted = TRUE]

\* the history of token k: the first operation that succeeded with it
Spend(toks, k, how) == [toks EXCEPT ![k].spent = IF @ = "" THEN how ELSE @]

\* the rotation without BLACKLIST_AFTER_ROTATION
rotate_only(k) ==
    Append(tokens, [tokens[k] EXCEPT !.blacklisted = FALSE, !.age = Fresh, !.spent = ""])

\* ROTATE_REFRESH_TOKENS with BLACKLIST_AFTER_ROTATION: the old token goes to
\* the blacklist, the new pair carries the claims of the old one
rotate(k) ==
    Append(blacklist(tokens, k),
           [tokens[k] EXCEPT !.blacklisted = FALSE, !.age = Fresh, !.spent = ""])

\* TokenRefreshSerializer.validate after the verification: 200 with the new
\* pair
RefreshRotate(p) ==
    /\ req[p].pc = "rotate"
    /\ tokens' = Spend(rotate(req[p].token), req[p].token, "refresh")
    /\ req' = [req EXCEPT ![p] =
          Done([req[p] EXCEPT !.body = {[refresh |-> Len(tokens) + 1]}], "200")]
    /\ UNCHANGED <<users, profiles, roles, ledger, now>>

\* LogoutView.post up to RefreshToken(refresh_token); a is the access token
\* of the Authorization header, k the "refresh" of the body; by is
\* request.user
LogoutVerify(p, a, k) ==
    /\ Free(p)
    /\ LET r == [Idle EXCEPT !.op = "logout", !.token = k]
           auth == [r EXCEPT !.by = tokens[a].user]
       IN  req' = [req EXCEPT ![p] =
              IF ~ValidAccess(a) THEN Done(r, "401")
              ELSE IF k = Null
                   THEN [Done(r, "400") EXCEPT !.by = auth.by,
                                               !.error = "Refresh token required."]
              ELSE IF ~ValidRefresh(k)
                   THEN [Done(r, "400") EXCEPT !.by = auth.by,
                                               !.error = "Invalid or expired token."]
              ELSE [auth EXCEPT !.pc = "blacklist"]]
    /\ UNCHANGED <<users, profiles, roles, ledger, now, tokens>>

\* token.blacklist(), 205
LogoutBlacklist(p) ==
    /\ req[p].pc = "blacklist"
    /\ tokens' = Spend(blacklist(tokens, req[p].token), req[p].token, "logout")
    /\ req' = [req EXCEPT ![p] = [Done(req[p], "205") EXCEPT !.by = req[p].by]]
    /\ UNCHANGED <<users, profiles, roles, ledger, now>>

\* the roles taken from the payload of a token of the user
UserData_snapshot(u) ==
    LET c == CHOOSE c \in UNION {tokens[k].claims : k \in {j \in TokenIds : tokens[j].user = u}} : TRUE
    IN  [username |-> users[u].username, email |-> users[u].email, roles |-> c.roles]

\* UserSerializer(request.user).data: the identity and get_roles
UserData(u) ==
    [username |-> users[u].username, email |-> users[u].email,
     roles |-> RoleSlugs(get_active_roles(u))]

\* GET /me
Me(p, a) ==
    /\ Free(p)
    /\ LET r == [Idle EXCEPT !.op = "me", !.token = a]
       IN  req' = [req EXCEPT ![p] =
              IF ~ValidAccess(a) THEN Done(r, "401")
              ELSE Done([r EXCEPT !.body = {UserData(tokens[a].user)}], "200")]
    /\ UNCHANGED <<users, profiles, roles, ledger, now, tokens>>

\* what clients send as a token
Sent == TokenIds \cup {NoId, Null}

NextSession ==
    \/ \E p \in {1}, u \in 1..SessHolders, r \in RoleIds : Quiet /\ CallAddRole(p, u, r, NoId, NoNote)
    \/ \E p \in {1} : GetOrCreateGet(p)
    \/ \E p \in {1} : GetOrCreateCreate(p)
    \/ \E p \in {1} : AddRoleUpdate(p)
    \/ \E u \in 1..SessHolders, r \in RoleIds : Quiet /\ remove_role(u, r)
    \/ \E r \in RoleIds : Quiet /\ activate_roles({r})
    \/ \E r \in RoleIds : Quiet /\ deactivate_roles({r})
    \/ \E p \in {1}, ident \in Usernames \cup Emails, pw \in Passwords : Quiet /\ Login(p, ident, pw)
    \/ \E p \in {1}, k \in Sent : Quiet /\ RefreshVerify(p, k)
    \/ \E p \in {1} : RefreshRotate(p)
    \/ \E p \in {1}, a \in Sent, k \in Sent : Quiet /\ LogoutVerify(p, a, k)
    \/ \E p \in {1} : LogoutBlacklist(p)
    \/ \E p \in {1}, a \in Sent : Quiet /\ Me(p, a)
    \/ \E k \in TokenIds : Quiet /\ Expire(k)

InitSession == Populated(SessUsers, SessRoles)

\* login, refresh, logout and /me, one request at a time, while roles are
\* assigned, revoked, activated and deactivated
SpecSession == InitSession /\ [][NextSession]_vars

\* --------------------------------------------------------------- profile
\* the profile rows of user u
ProfilesOf(u) == {k \in 1..Len(profiles) : profiles[k] = u}

\* the column without the unique constraint (a ForeignKey)
NoOneToOne(u) == TRUE

\* user = OneToOneField(...): the INSERT of a profile for u is accepted
OneToOne(u) == ProfilesOf(u) = {}

\* user.save() of an existing user: the UPDATE, then post_save with
\* created=False: the SELECT of Profile.objects.get_or_create(user=instance)
SaveUser(p, u) ==
    /\ Free(p)
    /\ LET r == [Idle EXCEPT !.op = "save_user", !.user = u]
       IN  req' = [req EXCEPT ![p] =
              IF ProfilesOf(u) # {} THEN Done(r, "ok") ELSE [r EXCEPT !.pc = "prof_create"]]
    /\ UNCHANGED <<users, profiles, roles, ledger, now, tokens>>

\* get_or_create: the INSERT; on IntegrityError the row is selected again
ProfileCreate(p) ==
    /\ req[p].pc = "prof_create"
    /\ IF OneToOne(req[p].user)
       THEN /\ profiles' = Append(profiles, req[p].user)
            /\ req' = [req EXCEPT ![p] = Done(req[p], "created")]
       ELSE /\ profiles' = profiles
            /\ req' = [req EXCEPT ![p] = Done(req[p], "ok")]
    /\ UNCHANGED <<users, roles, ledger, now, tokens>>

\* the application is added to a project that has a user: no profile yet
\* ("useful when adding this model to an existing project")
InitProfile ==
    /\ users = <<UserRow(3)>>
    /\ profiles = <<>>
    /\ roles = <<[slug |-> RoleSlug(1), is_active |-> TRUE]>>
    /\ ledger = <<>>
    /\ now = 0
    /\ tokens = <<>>
    /\ req = [p \in Procs |-> Idle]

NextProfile ==
    \/ \E p \in Procs, n \in Usernames, e \in Emails :
          Register(p, [username |-> n, email |-> e, password |-> "pw", password2 |-> "pw"], TRUE)
    \/ \E p \in Procs : RegSave(p)
    \/ \E p \in Procs : RegGetRole(p)
    \/ \E p \in Procs : RegToken(p)
    \/ \E p \in Procs : RegRespond(p)
    \/ \E p \in Procs, u \in UserIds : SaveUser(p, u)
    \/ \E p \in Procs : ProfileCreate(p)

\* users are created and saved by concurrent requests
SpecProfile == InitProfile /\ [][NextProfile]_vars

\* ================================================================ claims
\* process p takes the step
Steps(p) == req'[p] # req[p]

\* C1: the ledger holds at most one row for each (user, role) pair, under
\* any interleaving of add_role, remove_role, activate and revoke
C1_OneRowPerPair ==
    \A u \in UserIds, r \in RoleIds : Cardinality(RowsFor(u, r)) <= 1

\* two assignments of one pair race: the row is there and an INSERT is pending
C1_Witness ==
    \E p \in Procs :
        /\ req[p].pc = "goc_create"
        /\ RowsFor(req[p].user, req[p].role.pk) # {}

\* C2: once a pair has its row, add_role and remove_role keep that row (same
\* id, no second row), and the row is active right after every add_role
C2_RowKept ==
    [][/\ \A u \in UserIds, r \in RoleIds :
              RowsFor(u, r) # {} => RowsFor(u, r)' = RowsFor(u, r)
       /\ \A p \in Procs, u \in UserIds, r \in RoleIds :
              (Steps(p) /\ req[p].op = "add_role" /\ req[p].user = u /\ req[p].role.pk = r
                        /\ req'[p].pc = "done" /\ req'[p].status = "ok")
              => /\ RowsFor(u, r)' # {}
                 /\ \A i \in RowsFor(u, r)' : ledger'[i].is_active
      ]_vars

\* add_role returned the row it had created, revoked and assigned again
C2_Witness ==
    /\ \E p \in Procs : req[p].op = "add_role" /\ req[p].pc = "done" /\ req[p].status = "ok"
    /\ \E i \in RowIds : ledger[i].is_active /\ ledger[i].revoked_at # Null

\* C3: add_role on an inactive row leaves it active, assigned now and with
\* revoked_at null; so every active row has revoked_at null
C3_ReassignClearsRevoked ==
    [][/\ \A p \in Procs :
              (Steps(p) /\ req[p].pc = "add_update" /\ ~ledger[req[p].ur.id].is_active)
              => /\ ledger'[req[p].ur.id].is_active
                 /\ ledger'[req[p].ur.id].assigned_at = now
                 /\ ledger'[req[p].ur.id].revoked_at = Null
       /\ \A i \in RowIds : ledger[i].is_active => ledger[i].revoked_at = Null
      ]_vars

\* C4: add_role with an inactive or unsaved role fails and leaves the ledger
\* as it was
C4_RefusedAddRole ==
    [][\A p \in Procs :
           (Steps(p) /\ Free(p) /\ req'[p].op = "add_role"
             /\ (req'[p].role.pk = NoId \/ ~req'[p].role.is_active))
           => /\ req'[p].pc = "done"
              /\ req'[p].status = "ValueError"
              /\ ledger' = ledger
      ]_vars

\* add_role was refused for an inactive role while the pair had its row
C4_Witness ==
    \E p \in Procs :
        /\ req[p].op = "add_role" /\ req[p].pc = "done" /\ req[p].status = "ValueError"
        /\ req[p].role.pk # NoId /\ ~req[p].role.is_active
        /\ \E u \in UserIds : RowsFor(u, req[p].role.pk) # {}

\* C5: while a role is inactive no step creates a row for it or switches an
\* inactive row for it to active
C5_InactiveRoleNotGranted ==
    [][\A r \in RoleIds :
           ~roles[r].is_active
           => \A i \in 1..Len(ledger') :
                  (ledger'[i].role = r /\ ledger'[i].is_active)
                  => (i \in RowIds /\ ledger[i].is_active)
      ]_vars

\* C6: has_role(slug) is true iff the user has an active row whose role has
\* that slug and is active
C6_HasRole ==
    /\ \A u \in UserIds, r \in RoleIds :
           has_role(u, roles[r].slug)
           <=> (roles[r].is_active /\ \E i \in RowsFor(u, r) : ledger[i].is_active)
    /\ \A u \in UserIds : ~has_role(u, "no-such-role")

\* a user holds an active row for a deactivated role, another holds a role
C6_Witness ==
    /\ \E i \in RowIds :
           /\ ledger[i].is_active
           /\ ~roles[ledger[i].role].is_active
           /\ ~has_role(ledger[i].user, roles[ledger[i].role].slug)
    /\ \E u \in UserIds, r \in RoleIds : has_role(u, roles[r].slug)

\* C7: a registration that created its user ends with 201 and a token pair,
\* whatever the state of the default role
C7_RegistrationSucceeds ==
    \A p \in Procs :
        (req[p].op = "register" /\ req[p].pc = "done" /\ req[p].user # NoId)
        => (req[p].status = "201" /\ req[p].token \in 1..Len(tokens))

\* C8: a registration with password # password2, or with an email that a
\* user has, ends with a validation error and creates no user, profile,
\* ledger row or token
C8_RejectedRegistration ==
    [][\A p \in Procs, n \in Usernames, e \in Emails, pw2 \in Passwords, f \in BOOLEAN :
           LET attrs == [username |-> n, email |-> e, password |-> "pw", password2 |-> pw2]
           IN  (Register(p, attrs, f) /\ (pw2 # "pw" \/ UsersWithEmail(e) # {}))
               => /\ req'[p].pc = "done"
                  /\ req'[p].status = "400"
                  /\ req'[p].error # ""
                  /\ UNCHANGED <<users, profiles, ledger, tokens>>
      ]_vars

\* a registration was refused for its email, which a user has
C8_Witness ==
    \E p \in Procs :
        /\ req[p].op = "register" /\ req[p].pc = "done"
        /\ req[p].status = "400" /\ req[p].error = "email"
        /\ users # <<>>

\* C9: no two users have the same email
C9_UniqueEmails ==
    \A i \in UserIds, j \in UserIds : i # j => users[i].email # users[j].email

\* C10: every token issued carries the user's username, email and the slugs
\* of the roles active for the user when it is issued
C10_TokenPayload ==
    [][\A k \in 1..Len(tokens') :
           k > Len(tokens)
           => tokens'[k].claims =
                  {[username |-> users[tokens'[k].user].username,
                    email |-> users[tokens'[k].user].email,
                    roles |-> RoleSlugs(get_active_roles(tokens'[k].user))]}
      ]_vars

\* C11: for every user, a login with the email and the password has the
\* outcome of a login with the username and the password: success, with the
\* token pair issued for that user
C11_EmailLoginAsUsername ==
    \A u \in UserIds :
        /\ login_outcome(users[u].email, users[u].password)
               = login_outcome(users[u].username, users[u].password)
        /\ login_outcome(users[u].username, users[u].password) = [status |-> "200", user |-> u]

\* C12: every login that fails ends with 401, whatever the cause
C12_GenericLoginFailure ==
    [][\A p \in Procs :
           (Steps(p) /\ req'[p].op = "login" /\ req'[p].pc = "done" /\ req'[p].status # "200")
           => req'[p].status = "401"
      ]_vars

\* C13: a refresh token that was redeemed is refused by every later refresh
C13_SingleUseRefresh ==
    [][\A p \in Procs, k \in TokenIds :
           /\ (Steps(p) /\ req[p].pc = "rotate" /\ req[p].token = k)
              => (req'[p].status = "200" /\ tokens'[k].spent = "refresh")
           /\ (tokens[k].spent = "refresh" /\ Steps(p) /\ Free(p)
                 /\ req'[p].op = "refresh" /\ req'[p].token = k)
              => (req'[p].pc = "done" /\ req'[p].status = "401" /\ tokens' = tokens)
           /\ tokens[k].spent = "refresh" => tokens'[k].spent = "refresh"
      ]_vars

\* a token was redeemed, sent again and refused
C13_Witness ==
    \E p \in Procs :
        /\ req[p].op = "refresh" /\ req[p].pc = "done" /\ req[p].status = "401"
        /\ req[p].token \in TokenIds
        /\ tokens[req[p].token].spent = "refresh"
        /\ tokens[req[p].token].age = Fresh

\* C14: after a logout 205 with token T, T is in the blacklist and stays
\* there: later refreshes and logouts with T fail
C14_LogoutBlacklists ==
    [][\A p \in Procs, k \in TokenIds :
           /\ (Steps(p) /\ req[p].pc = "blacklist" /\ req[p].token = k)
              => (req'[p].status = "205" /\ tokens'[k].blacklisted)
           /\ tokens[k].blacklisted => tokens'[k].blacklisted
           /\ (tokens[k].spent = "logout" /\ Steps(p) /\ Free(p) /\ req'[p].token = k
                 /\ req'[p].op \in {"refresh", "logout"})
              => /\ req'[p].pc = "done"
                 /\ req'[p].status = (IF req'[p].op = "refresh" THEN "401" ELSE "400")
                    \/ (req'[p].op = "logout" /\ req'[p].status = "401")
                 /\ tokens' = tokens
      ]_vars

\* an authenticated logout was refused for a token of an earlier logout
C14_Witness ==
    \E p \in Procs :
        /\ req[p].op = "logout" /\ req[p].pc = "done" /\ req[p].status = "400"
        /\ req[p].token \in TokenIds
        /\ tokens[req[p].token].spent = "logout"
        /\ tokens[req[p].token].age = Fresh

\* C15: an authenticated logout whose token is missing, malformed, expired
\* or blacklisted ends with 400 and leaves the blacklist as it was; 205 is
\* returned only for a refresh token that is valid and not blacklisted
C15_LogoutRefused ==
    [][\A p \in Procs :
           /\ \A k \in Sent :
                  (Steps(p) /\ Free(p) /\ req'[p].op = "logout" /\ req'[p].token = k
                     /\ req'[p].by # NoId
                     /\ (k \notin TokenIds \/ tokens[k].age = RefreshExpired
                                            \/ tokens[k].blacklisted))
                  => (req'[p].pc = "done" /\ req'[p].status = "400" /\ tokens' = tokens)
           /\ (Steps(p) /\ req'[p].op = "logout" /\ req'[p].status = "205")
              => /\ req[p].token \in TokenIds
                 /\ tokens[req[p].token].age # RefreshExpired
                 /\ ~tokens[req[p].token].blacklisted
      ]_vars

\* a logout was refused for an expired token that is not in the blacklist
C15_Witness ==
    \E p \in Procs :
        /\ req[p].op = "logout" /\ req[p].pc = "done" /\ req[p].status = "400"
        /\ req[p].token \in TokenIds
        /\ tokens[req[p].token].age = RefreshExpired
        /\ ~tokens[req[p].token].blacklisted

\* the slugs of the roles that are active for u in the ledger
LiveSlugs(u) ==
    {roles[r].slug : r \in {x \in RoleIds :
        roles[x].is_active /\ \E i \in RowsFor(u, x) : ledger[i].is_active}}

\* C16: /me with a valid access token returns the roles active for the user
\* in the ledger at the time of the read
C16_LiveRoles ==
    [][\A p \in Procs, a \in TokenIds :
           (Me(p, a) /\ tokens[a].age = Fresh)
           => /\ req'[p].status = "200"
              /\ \A b \in req'[p].body :
                     /\ {b.roles[i] : i \in 1..Len(b.roles)} = LiveSlugs(tokens[a].user)
                     /\ Len(b.roles) = Cardinality(LiveSlugs(tokens[a].user))
              /\ req'[p].body # {}
      ]_vars

\* /me answered without a role that the token's snapshot lists
C16_Witness ==
    \E p \in Procs :
        /\ req[p].op = "me" /\ req[p].pc = "done" /\ req[p].status = "200"
        /\ \E b \in req[p].body, c \in tokens[req[p].token].claims :
               b.roles = <<>> /\ c.roles # <<>>

\* C17: remove_role sets the active row of the pair to is_active=false and
\* revoked_at=now; with no row or an inactive row it changes nothing
C17_RemoveRole ==
    [][\A u \in UserIds, r \in RoleIds :
           remove_role(u, r)
           => /\ Len(ledger') = Len(ledger)
              /\ \A i \in RowIds :
                     ledger'[i] = IF ledger[i].user = u /\ ledger[i].role = r
                                      /\ ledger[i].is_active
                                   THEN [ledger[i] EXCEPT !.is_active = FALSE,
                                                          !.revoked_at = now]
                                   ELSE ledger[i]
      ]_vars

\* a row revoked by remove_role (no admin touched it) keeps the time of its
\* revoke after the clock moved on
C17_Witness ==
    \E i \in RowIds :
        /\ ~ledger[i].is_active
        /\ ledger[i].assigned_by = NoId
        /\ ledger[i].revoked_at # Null
        /\ ledger[i].revoked_at < now

\* C18: activating or deactivating roles changes the is_active flag of the
\* selected roles and nothing else; a user whose row stayed active holds the
\* role again when the role is activated
C18_SetActiveFrame ==
    [][\A S \in SUBSET RoleIds \ {{}}, b \in BOOLEAN :
           (IF b THEN activate_roles(S) ELSE deactivate_roles(S))
           => /\ ledger' = ledger
              /\ \A r \in RoleIds :
                     roles'[r] = IF r \in S THEN [roles[r] EXCEPT !.is_active = b]
                                 ELSE roles[r]
              /\ b => \A u \in UserIds, r \in S :
                          (\E i \in RowsFor(u, r) : ledger[i].is_active)
                          => has_role(u, roles[r].slug)'
      ]_vars

\* a role was deactivated while a row for it stayed active, another role is
\* active
C18_Witness ==
    /\ \E i \in RowIds :
           /\ ledger[i].is_active
           /\ ledger[i].revoked_at = Null
           /\ ~roles[ledger[i].role].is_active
    /\ \E r \in RoleIds : roles[r].is_active

\* C19: get_active_roles returns each role at most once, and exactly the
\* active roles for which the user has an active row
C19_ActiveRoles ==
    \A u \in UserIds :
        LET rs == get_active_roles(u)
        IN  /\ \A i \in 1..Len(rs), j \in 1..Len(rs) : i # j => rs[i] # rs[j]
            /\ {rs[i] : i \in 1..Len(rs)}
                 = {r \in RoleIds : roles[r].is_active
                                    /\ \E i \in RowsFor(u, r) : ledger[i].is_active}

\* the role is returned once while a second insert for the pair is pending
C19_Witness ==
    \E p \in Procs :
        /\ req[p].pc = "goc_create"
        /\ get_active_roles(req[p].user) = <<req[p].role.pk>>

C21_InsertRace ==
    [][\A p \in Procs, u \in UserIds, r \in RoleIds :
           (Steps(p) /\ req[p].op = "add_role" /\ req[p].user = u /\ req[p].role.pk = r
                     /\ req[p].pc \in {"goc_get", "goc_create", "add_update"})
           => /\ \/ req'[p].pc \in {"goc_create", "add_update"}
                 \/ req'[p].pc = "done" /\ req'[p].status = "ok"
              /\ req'[p].pc = "add_update" => RowsFor(u, r) = {req'[p].ur.id}
              /\ req'[p].pc = "done"
                 => \E i \in 1..Len(ledger') :
                        /\ i = IF req[p].pc = "add_update" THEN req[p].ur.id
                               ELSE Len(ledger) + 1
                        /\ RowsFor(u, r)' = {i}
                        /\ ledger'[i].is_active
      ]_vars

\* one call inserted the row and returned; the other, refused by the unique
\* constraint, holds that row
C21_Witness ==
    \E p \in Procs, q \in Procs :
        /\ req[p].op = "add_role" /\ req[p].pc = "done" /\ req[p].status = "ok"
        /\ req[q].op = "add_role" /\ req[q].pc = "add_update"
        /\ req[q].error = "IntegrityError"
        /\ req[q].ur.id \in RowIds
        /\ ledger[req[q].ur.id].is_active

\* C22: a revoke, by remove_role or by UserRole.revoke, changes is_active and
\* revoked_at of the row and leaves its assigned_by, note and assigned_at
C22_RevokeFrame ==
    [][\A i \in RowIds :
           (ledger[i].is_active /\ ~ledger'[i].is_active)
           => /\ ledger'[i].assigned_by = ledger[i].assigned_by
              /\ ledger'[i].note = ledger[i].note
              /\ ledger'[i].assigned_at = ledger[i].assigned_at
      ]_vars

\* C23: has_role(slug) is true iff get_active_roles() of the user contains a
\* role with that slug
C23_ReadsAgree ==
    \A u \in UserIds, slug \in {roles[r].slug : r \in RoleIds} \cup {"no-such-role"} :
        has_role(u, slug)
        <=> \E k \in 1..Len(get_active_roles(u)) :
                roles[get_active_roles(u)[k]].slug = slug

\* a user holds one role and has an active row for a role that is inactive
C23_Witness ==
    \E u \in UserIds, r \in RoleIds, i \in RowIds :
        /\ has_role(u, roles[r].slug)
        /\ ledger[i].user = u
        /\ ledger[i].is_active
        /\ ~roles[ledger[i].role].is_active
        /\ Len(get_active_roles(u)) = 1

\* C24: a logout authenticated as user A blacklists a refresh token only if
\* the token was issued to A, and blacklists no token other than the one sent
C24_LogoutOwnToken ==
    [][\A p \in Procs :
           (Steps(p) /\ req[p].op = "logout" /\ req[p].pc = "blacklist")
           => /\ tokens[req[p].token].user = req[p].by
              /\ \A k \in TokenIds \ {req[p].token} :
                     tokens'[k].blacklisted = tokens[k].blacklisted
      ]_vars

====
